---- MODULE Spec2Model ----
(***************************************************************************)
(* Payment returns (account_payment_return/models/payment_return.py).      *)
(*                                                                         *)
(* The state is the part of the persistent object graph the payment return *)
(* code reads and writes: the journal of the returns, journal entries      *)
(* (account.move), their lines (account.move.line), partial reconciliations*)
(* (account.partial.reconcile), the returns (payment.return) and their     *)
(* lines (payment.return.line).  Each public method of the two models is   *)
(* one action.  A method that raises leaves the database as it was (the    *)
(* transaction is rolled back); the exception is recorded in "last".       *)
(*                                                                         *)
(* Amounts are integers (currency units); float_compare with the currency  *)
(* rounding is equality on them.                                           *)
(***************************************************************************)
EXTENDS Integers, Sequences, FiniteSets, TLC

\* Largest amount a user enters on a return line.
MaxAmount == 2
\* Number of return entries (journal entries created by action_confirm) that
\* exist at a time.
MaxEntries == 2
\* Number of method calls in one behaviour.
MaxCalls == 3

VARIABLES
    journal,    \* account.journal of the returns
    moves,      \* account.move: id -> record
    aml,        \* account.move.line: id -> record
    partials,   \* account.partial.reconcile: set of records
    returns,    \* payment.return: id -> [state, move_id]
    rlines,     \* payment.return.line: id -> record
    last,       \* the last method call: its name, recordset, exception, results
    snap,       \* history: matched debit lines of the payment lines at the last confirm
    created,    \* history: return id -> journal entries action_confirm created for it
    confirmed,  \* history: returns confirmed and not cancelled since
    calls       \* number of method calls made so far

vars == <<journal, moves, aml, partials, returns, rlines, last, snap, created, confirmed, calls>>

ReturnIds == {1, 2}
NoMove == 0
NoPartner == 0

\* Every action is one method call.
called == calls < MaxCalls /\ calls' = calls + 1

----------------------------------------------------------------------------
(* Helpers on sets of integers.                                            *)

Min(S) == CHOOSE x \in S : \A y \in S : x <= y

MinOf(a, b) == IF a <= b THEN a ELSE b

RECURSIVE SumOver(_, _)
\* sum(records.mapped(field)): f gives the field's value of each id.
SumOver(S, f) ==
    IF S = {} THEN 0
    ELSE LET x == Min(S) IN f[x] + SumOver(S \ {x}, f)

Pick(S) == CHOOSE x \in S : TRUE

RECURSIVE SumAmount(_)
\* sum(partials.mapped("amount"))
SumAmount(ps) ==
    IF ps = {} THEN 0
    ELSE LET p == Pick(ps) IN p.amount + SumAmount(ps \ {p})

\* Function union: g's values where both are defined.
Merge(f, g) ==
    [x \in DOMAIN f \cup DOMAIN g |-> IF x \in DOMAIN g THEN g[x] ELSE f[x]]

RECURSIVE SortedSeq(_)
\* A recordset iterates in id order.
SortedSeq(S) ==
    IF S = {} THEN << >>
    ELSE LET x == Min(S) IN <<x>> \o SortedSeq(S \ {x})

----------------------------------------------------------------------------
(* account.move.line fields computed by the framework.                     *)

\* Accounts that allow reconciliation (account.reconcile, or liquidity).
ReconcilableAccounts == {"receivable", "outstanding", "outstanding2"}

account_internal_type(lines, l) ==
    IF lines[l].account_id = "receivable" THEN "receivable" ELSE "other"

\* move.line_ids
line_ids(lines, m) == {l \in DOMAIN lines : lines[l].move_id = m}

\* line.amount_residual, as an absolute value.
amount_residual(lines, ps, l) ==
    (lines[l].debit + lines[l].credit)
    - SumAmount({p \in ps : p.debit_move_id = l \/ p.credit_move_id = l})

\* line.reconciled
reconciled(lines, ps, l) ==
    /\ lines[l].account_id \in ReconcilableAccounts
    /\ amount_residual(lines, ps, l) = 0

\* line.matched_debit_ids: the partials whose credit move is the line.
matched_debit_ids(ps, l) == {p \in ps : p.credit_move_id = l}

\* line.matched_credit_ids: the partials whose debit move is the line.
matched_credit_ids(ps, l) == {p \in ps : p.debit_move_id = l}

\* line.remove_move_reconcile(): every partial of the line is deleted.
remove_move_reconcile(ps, l) ==
    {p \in ps : p.debit_move_id # l /\ p.credit_move_id # l}

\* The checks lines.reconcile() makes before it creates partials.
reconcile_error(lines, ps, ls) ==
    IF \E l \in ls : reconciled(lines, ps, l) THEN "UserError"
    ELSE IF \E l \in ls : lines[l].account_id \notin ReconcilableAccounts THEN "UserError"
    ELSE IF Cardinality({lines[l].account_id : l \in ls}) > 1 THEN "UserError"
    ELSE ""

RECURSIVE reconcile(_, _, _)
\* lines.reconcile(): debit and credit lines are paired in order, each pair
\* for the smaller of the two residual amounts, until one side is exhausted.
reconcile(lines, ps, ls) ==
    LET D == {l \in ls : lines[l].debit > 0 /\ amount_residual(lines, ps, l) > 0}
        C == {l \in ls : lines[l].credit > 0 /\ amount_residual(lines, ps, l) > 0}
    IN  IF D = {} \/ C = {} THEN ps
        ELSE LET d == Min(D)
                 c == Min(C)
                 p == [debit_move_id |-> d, credit_move_id |-> c,
                       amount |-> MinOf(amount_residual(lines, ps, d),
                                        amount_residual(lines, ps, c)),
                       origin_returned_move_ids |-> {}]
             IN reconcile(lines, ps \cup {p}, ls)

----------------------------------------------------------------------------
(* payment.return: total amount and the duplicate check.                   *)

\* A read_group that does not group: every return gets the sum over the whole
\* domain. C6_TotalAmount fails with it.
read_group_ungrouped(rl, ids) ==
    LET dom == {l \in DOMAIN rl : rl[l].return_id \in ids}
    IN  { [return_id |-> r,
           amount |-> SumOver(dom, [l \in DOMAIN rl |-> rl[l].amount])]
          : r \in {rl[l].return_id : l \in dom} }

\* return_line_model.read_group(domain, ["return_id", "amount"], ["return_id"]):
\* one dictionary per return that has a line in the domain, with the sum of
\* the amounts of its lines.
read_group(rl, ids) ==
    LET dom == {l \in DOMAIN rl : rl[l].return_id \in ids}
    IN  { [return_id |-> r,
           amount |-> SumOver({l \in dom : rl[l].return_id = r},
                              [l \in DOMAIN rl |-> rl[l].amount])]
          : r \in {rl[l].return_id : l \in dom} }

\* _compute_total_amount: rec.total_amount for every rec of self.
compute_total_amount(rl, self) ==
    LET res == read_group(rl, self)
        lines_dict == [r \in {dic.return_id : dic \in res} |->
                          (CHOOSE dic \in res : dic.return_id = r).amount]
    IN  [rec \in self |-> IF rec \in DOMAIN lines_dict THEN lines_dict[rec] ELSE 0]

\* self.mapped("line_ids")
mapped_line_ids(rl, self) == {l \in DOMAIN rl : rl[l].return_id \in self}

RECURSIVE LinePairs(_, _)
\* The iterations of "for line in lines: for move_line in line.move_line_ids".
LinePairs(rl, ls) ==
    IF ls = << >> THEN << >>
    ELSE LET mls == SortedSeq(rl[Head(ls)].move_line_ids)
         IN  [i \in 1..Len(mls) |-> <<Head(ls), mls[i]>>] \o LinePairs(rl, Tail(ls))

RECURSIVE dup_scan(_, _)
\* First loop of _check_duplicate_move_line: the lines appended to error_list
\* and all_move_lines.
dup_scan(pairs, st) ==
    IF pairs = << >> THEN st
    ELSE LET line == Head(pairs)[1]
             move_line == Head(pairs)[2]
         IN dup_scan(Tail(pairs),
                [error_list |-> IF move_line \in st.all_move_lines
                                THEN Append(st.error_list, line)
                                ELSE st.error_list,
                 all_move_lines |-> st.all_move_lines \cup {move_line}])

\* A constraint whose search leaves out ("return_id.state", "=", "done").
\* C2_DuplicateCheck fails with it.
check_duplicate_move_line_any_state(rets, rl, self) ==
    LET st == dup_scan(LinePairs(rl, SortedSeq(mapped_line_ids(rl, self))),
                       [error_list |-> << >>, all_move_lines |-> {}])
        duplicate_lines ==
            {l \in DOMAIN rl : rl[l].move_line_ids \cap st.all_move_lines # {}}
    IN  IF st.error_list = << >> /\ st.all_move_lines # {}
        THEN SortedSeq(duplicate_lines)
        ELSE st.error_list

\* _check_duplicate_move_line: the error list (lines named in the message);
\* ValidationError is raised when it is not empty.
check_duplicate_move_line(rets, rl, self) ==
    LET st == dup_scan(LinePairs(rl, SortedSeq(mapped_line_ids(rl, self))),
                       [error_list |-> << >>, all_move_lines |-> {}])
        duplicate_lines ==
            {l \in DOMAIN rl :
                /\ rl[l].move_line_ids \cap st.all_move_lines # {}
                /\ rets[rl[l].return_id].state = "done"}
    IN  IF st.error_list = << >> /\ st.all_move_lines # {}
        THEN SortedSeq(duplicate_lines)
        ELSE st.error_list

----------------------------------------------------------------------------
(* payment.return.line: matching.                                          *)

\* domain = line.partner_id and [("partner_id", "=", line.partner_id.id)] or []
partner_domain(line, partner) ==
    line.partner_id = NoPartner \/ partner = line.partner_id

\* match_invoice for one line: the new move_line_ids.
match_invoice(rl, l) ==
    LET line == rl[l]
        invoice == {m \in DOMAIN moves :
                       /\ partner_domain(line, moves[m].partner_id)
                       /\ moves[m].name = line.reference
                       /\ moves[m].move_type = "out_invoice"}
        invoice_line_ids == {i \in DOMAIN aml :
                                /\ aml[i].move_id \in invoice
                                /\ aml[i].account_id \in {"receivable", "payable"}}
        by_debit == {p.debit_move_id : p \in {q \in partials : q.credit_move_id \in invoice_line_ids}}
        by_credit == {p.credit_move_id : p \in {q \in partials : q.debit_move_id \in invoice_line_ids}}
        payment_lines == SortedSeq(by_debit) \o SortedSeq(by_credit \ by_debit)
    IN  IF invoice # {} /\ payment_lines # << >>
        THEN [rl EXCEPT ![l].move_line_ids = {payment_lines[1]}]
        ELSE rl

\* match_move_lines for one line.
match_move_lines(rl, l) ==
    LET line == rl[l]
        move_lines == {i \in DOMAIN aml :
            /\ partner_domain(line, aml[i].partner_id)
            /\ moves[aml[i].move_id].journal_id = journal.id
            /\ moves[aml[i].move_id].move_type = "entry"
            /\ account_internal_type(aml, i) = "receivable"
            /\ reconciled(aml, partials, i)
            /\ (aml[i].name = line.reference \/ moves[aml[i].move_id].ref = line.reference)}
    IN  IF move_lines # {} THEN [rl EXCEPT ![l].move_line_ids = move_lines] ELSE rl

\* match_move for one line.
match_move(rl, l) ==
    LET line == rl[l]
        move == {m \in DOMAIN moves :
                    /\ partner_domain(line, moves[m].partner_id)
                    /\ moves[m].name = line.reference
                    /\ moves[m].move_type = "entry"}
    IN  IF move # {}
        THEN [rl EXCEPT ![l].move_line_ids =
                 {i \in DOMAIN aml : /\ aml[i].move_id \in move
                                     /\ account_internal_type(aml, i) = "receivable"
                                     /\ reconciled(aml, partials, i)}]
        ELSE rl

\* The filter "(not x.move_line_ids) and x.reference".
unmatched(rl, ls) == {l \in ls : rl[l].move_line_ids = {} /\ rl[l].reference # ""}

RECURSIVE for_each(_, _, _)
\* "for line in self" of one matcher (which: 1 invoice, 2 move lines, 3 move).
for_each(which, rl, ls) ==
    IF ls = {} THEN rl
    ELSE LET l == Min(ls)
             rl1 == CASE which = 1 -> match_invoice(rl, l)
                      [] which = 2 -> match_move_lines(rl, l)
                      [] OTHER -> match_move(rl, l)
         IN for_each(which, rl1, ls \ {l})

\* line.move_line_ids.mapped("partner_id")
line_partners(rl, l) ==
    {aml[i].partner_id : i \in rl[l].move_line_ids} \ {NoPartner}

\* _get_partner_from_move: the exception it raises, and its writes.
get_partner_error(rl, ls) ==
    IF \E l \in ls : rl[l].partner_id = NoPartner /\ Cardinality(line_partners(rl, l)) > 1
    THEN "UserError" ELSE ""

get_partner_from_move(rl, ls) ==
    [l \in DOMAIN rl |->
        IF l \in ls /\ rl[l].partner_id = NoPartner /\ line_partners(rl, l) # {}
        THEN [rl[l] EXCEPT !.partner_id = Min(line_partners(rl, l))]
        ELSE rl[l]]

\* _compute_amount on the lines ls.
compute_amount(rl, ls) ==
    [l \in DOMAIN rl |->
        IF l \in ls
        THEN [rl[l] EXCEPT !.amount =
                 SumOver(rl[l].move_line_ids, [i \in DOMAIN aml |-> aml[i].credit])]
        ELSE rl[l]]

\* A _find_match that does not filter again between the matchers.
\* C9_MatchPrecedence fails with it.
find_match_lines_unfiltered(rl, self) ==
    LET lines2match == unmatched(rl, self)
        rl1 == for_each(1, rl, lines2match)
        rl2 == for_each(2, rl1, lines2match)
    IN  for_each(3, rl2, lines2match)

\* _find_match on the lines self: the lines after the three matchers.
find_match_lines(rl, self) ==
    LET lines2match1 == unmatched(rl, self)
        rl1 == for_each(1, rl, lines2match1)
        lines2match2 == unmatched(rl1, lines2match1)
        rl2 == for_each(2, rl1, lines2match2)
        lines2match3 == unmatched(rl2, lines2match2)
    IN  for_each(3, rl2, lines2match3)

\* _find_match: [error, rl].
find_match(rl, self) ==
    LET rl3 == find_match_lines(rl, self)
        rl4 == get_partner_from_move(rl3, self)
    IN  [error |-> get_partner_error(rl3, self),
         rl |-> compute_amount(rl4, {l \in self : rl4[l].amount = 0})]

----------------------------------------------------------------------------
(* payment.return: confirmation.                                           *)

\* Ids of the journal entry action_confirm creates and of its lines.
entry_ids == {10 + k : k \in 1..MaxEntries}
new_move_id == Min(entry_ids \ DOMAIN moves)
credit_line_id(m) == m * 10
debit_line_id(m, l) == m * 10 + l
expense_credit_id(m, l) == m * 10 + 3 + l
expense_debit_id(m, l) == m * 10 + 6 + l

\* self.line_ids
return_lines(rl, r) == {l \in DOMAIN rl : rl[l].return_id = r}

\* An action_confirm without the check for incomplete lines.
\* C3_IncompleteConfirmRefused fails with it.
incomplete_lines_unchecked(rl, r) == {}

\* self.line_ids.filtered(lambda x: not x.move_line_ids)
incomplete_lines(rl, r) == {l \in return_lines(rl, r) : rl[l].move_line_ids = {}}

\* _get_move_amount
get_move_amount(rl, l) == rl[l].amount

\* _prepare_return_move_vals
prepare_return_move_vals(r) ==
    [move_type |-> "entry", name |-> "/", ref |-> "Return", partner_id |-> NoPartner,
     journal_id |-> journal.id, returned_payment |-> FALSE]

\* _prepare_return_move_line_vals
prepare_return_move_line_vals(rl, l, m) ==
    [move_id |-> m, name |-> "Return",
     debit |-> get_move_amount(rl, l), credit |-> 0,
     account_id |-> aml[Min(rl[l].move_line_ids)].account_id,
     partner_id |-> rl[l].partner_id]

\* A credit line that leaves out the first line's debit. C8_EntryBalanced
\* fails with it.
prepare_move_line_short(m, total_amount) ==
    [move_id |-> m, name |-> "Return",
     debit |-> 0, credit |-> total_amount - 1,
     account_id |-> journal.payment_credit_account_id,
     partner_id |-> NoPartner]

\* _prepare_move_line
prepare_move_line(m, total_amount) ==
    [move_id |-> m, name |-> "Return",
     debit |-> 0, credit |-> total_amount,
     account_id |-> journal.payment_credit_account_id,
     partner_id |-> NoPartner]

\* _prepare_expense_lines_vals: the credit line and the debit line.
prepare_expense_lines_vals(rl, l, m) ==
    << [move_id |-> m, name |-> "Return",
        debit |-> 0, credit |-> rl[l].expense_amount,
        account_id |-> journal.default_account_id, partner_id |-> NoPartner],
       [move_id |-> m, name |-> "Return",
        debit |-> rl[l].expense_amount, credit |-> 0,
        account_id |-> "expense", partner_id |-> NoPartner] >>

\* First loop of action_confirm: one debit line (move_line2) per return line.
debit_lines(rl, r, m) ==
    LET ls == return_lines(rl, r)
    IN  [i \in {debit_line_id(m, l) : l \in ls} |->
            prepare_return_move_line_vals(rl, CHOOSE l \in ls : debit_line_id(m, l) = i, m)]

\* total_amount += move_line2.debit
entry_total_amount(rl, r, m) ==
    LET debits == debit_lines(rl, r, m)
    IN  SumOver(DOMAIN debits, [i \in DOMAIN debits |-> debits[i].debit])

\* The lines of the entry when move._post() is called: the debit lines and
\* the credit line.
entry_lines_at_post(rl, r, m) ==
    Merge(debit_lines(rl, r, m),
          [i \in {credit_line_id(m)} |-> prepare_move_line(m, entry_total_amount(rl, r, m))])

\* The expense lines created in the second loop.
expense_lines(rl, r, m) ==
    LET ls == {l \in return_lines(rl, r) : rl[l].expense_amount # 0}
    IN  [i \in {expense_credit_id(m, l) : l \in ls} \cup {expense_debit_id(m, l) : l \in ls} |->
            IF \E l \in ls : expense_credit_id(m, l) = i
            THEN prepare_expense_lines_vals(rl,
                     CHOOSE l \in ls : expense_credit_id(m, l) = i, m)[1]
            ELSE prepare_expense_lines_vals(rl,
                     CHOOSE l \in ls : expense_debit_id(m, l) = i, m)[2]]

\* The write of origin_returned_move_ids on
\* return_line.move_line_ids.mapped("matched_debit_ids").
write_origin(ps, credit_lines, returned_moves) ==
    {IF p.credit_move_id \in credit_lines
     THEN [p EXCEPT !.origin_returned_move_ids = returned_moves]
     ELSE p : p \in ps}

\* One iteration of "for move_line in return_line.move_line_ids".
confirm_step(lines, rl, m, st, pair) ==
    LET return_line == pair[1]
        move_line == pair[2]
        move_line2 == debit_line_id(m, return_line)
        returned_moves == {p.debit_move_id : p \in matched_debit_ids(st.ps, move_line)}
        ps1 == remove_move_reconcile(st.ps, move_line)
        err == reconcile_error(lines, ps1, {move_line, move_line2})
        ps2 == reconcile(lines, ps1, {move_line, move_line2})
    IN  IF st.error # "" THEN st
        ELSE IF err # "" THEN [st EXCEPT !.error = err]
        ELSE [ps |-> write_origin(ps2, rl[return_line].move_line_ids, returned_moves),
              invoices |-> st.invoices \cup {lines[i].move_id : i \in returned_moves},
              all_move_lines |-> st.all_move_lines \cup {move_line},
              error |-> ""]

RECURSIVE confirm_loop(_, _, _, _, _)
\* The second loop of action_confirm.
confirm_loop(lines, rl, m, st, pairs) ==
    IF pairs = << >> THEN st
    ELSE confirm_loop(lines, rl, m, confirm_step(lines, rl, m, st, Head(pairs)), Tail(pairs))

\* The counterpart lines _auto_reconcile collects.
counterpart_move_lines(lines, all_move_lines) ==
    UNION {line_ids(lines, lines[ml].move_id) \ {ml} : ml \in all_move_lines}

\* An _auto_reconcile without the float_compare of the amounts.
\* C1_AutoReconcileExactlyWhen fails with it.
auto_reconcile_applies_any_amount(lines, ps, credit_move_line, all_move_lines, total_amount) ==
    LET cps == counterpart_move_lines(lines, all_move_lines)
    IN  /\ journal.return_auto_reconcile
        /\ \A ml \in all_move_lines :
              Cardinality(line_ids(lines, lines[ml].move_id)) = 2
        /\ cps # {}
        /\ ~ \E rec \in cps : reconciled(lines, ps, rec)
        /\ Cardinality({lines[i].account_id : i \in {credit_move_line} \cup cps}) = 1

\* Whether _auto_reconcile reaches lines_to_reconcile.reconcile().
auto_reconcile_applies(lines, ps, credit_move_line, all_move_lines, total_amount) ==
    LET cps == counterpart_move_lines(lines, all_move_lines)
    IN  /\ journal.return_auto_reconcile
        /\ \A ml \in all_move_lines :
              Cardinality(line_ids(lines, lines[ml].move_id)) = 2
        /\ cps # {}
        /\ total_amount = SumOver(cps, [i \in DOMAIN lines |-> lines[i].debit])
        /\ ~ \E rec \in cps : reconciled(lines, ps, rec)
        /\ Cardinality({lines[i].account_id : i \in {credit_move_line} \cup cps}) = 1

\* _auto_reconcile: [error, ps].
auto_reconcile(lines, ps, credit_move_line, all_move_lines, total_amount) ==
    LET lines_to_reconcile ==
            {credit_move_line} \cup counterpart_move_lines(lines, all_move_lines)
    IN  IF auto_reconcile_applies(lines, ps, credit_move_line, all_move_lines, total_amount)
        THEN [error |-> reconcile_error(lines, ps, lines_to_reconcile),
              ps |-> reconcile(lines, ps, lines_to_reconcile)]
        ELSE [error |-> "", ps |-> ps]

\* action_confirm on return r: the exception raised, or the new records.
confirm_result(r) ==
    LET m == new_move_id
        at_post == entry_lines_at_post(rlines, r, m)
        credit_move_line == credit_line_id(m)
        total_amount == entry_total_amount(rlines, r, m)
        lines1 == Merge(aml, at_post)
        st == confirm_loop(lines1, rlines, m,
                  [ps |-> partials, invoices |-> {}, all_move_lines |-> {}, error |-> ""],
                  LinePairs(rlines, SortedSeq(return_lines(rlines, r))))
        lines2 == Merge(lines1, expense_lines(rlines, r, m))
        auto == auto_reconcile(lines2, st.ps, credit_move_line, st.all_move_lines, total_amount)
    IN  [error |-> IF st.error # "" THEN st.error ELSE auto.error,
         m |-> m,
         at_post |-> at_post,
         aml |-> lines2,
         partials |-> auto.ps,
         invoices |-> st.invoices,
         all_move_lines |-> st.all_move_lines,
         credit_move_line |-> credit_move_line]

\* The exception action_confirm raises on return r ("" when it returns True).
confirm_error(r) ==
    IF incomplete_lines(rlines, r) # {} THEN "UserError"
    ELSE IF \E l \in return_lines(rlines, r) : rlines[l].move_line_ids = {} THEN "IndexError"
    ELSE confirm_result(r).error

\* The record of a call: the method, its recordset, the exception raised,
\* and what the method computed (credit_move_line and the flagged invoices of
\* action_confirm, the debit and credit totals of the entry when it was
\* posted, the invoices passed to check_payment_return by action_cancel, the
\* lines _check_duplicate_move_line examined).
NoCall ==
    [op |-> "", self |-> {}, error |-> "", credit_move_line |-> 0, invoices |-> {},
     post_debit |-> 0, post_credit |-> 0,
     checked_lines |-> << >>]

\* invoices.write({"returned_payment": True})
write_returned_payment(mv, invoices) ==
    [x \in DOMAIN mv |-> IF x \in invoices THEN [mv[x] EXCEPT !.returned_payment = TRUE]
                         ELSE mv[x]]

action_confirm(r) ==
    /\ called
    /\ r \in DOMAIN returns
    /\ entry_ids \ DOMAIN moves # {}
    /\ IF confirm_error(r) # ""
       THEN /\ last' = [NoCall EXCEPT !.op = "action_confirm", !.self = {r},
                                      !.error = confirm_error(r)]
            /\ snap' = << >>
            /\ UNCHANGED <<journal, moves, aml, partials, returns, rlines,
                           created, confirmed>>
       ELSE LET res == confirm_result(r)
            IN  /\ moves' = write_returned_payment(
                                Merge(moves, [x \in {res.m} |-> prepare_return_move_vals(r)]),
                                res.invoices)
                /\ aml' = res.aml
                /\ partials' = res.partials
                /\ returns' = [returns EXCEPT ![r] = [state |-> "done", move_id |-> res.m]]
                /\ last' = [NoCall EXCEPT
                              !.op = "action_confirm", !.self = {r},
                              !.credit_move_line = res.credit_move_line,
                              !.invoices = res.invoices,
                              !.post_debit = SumOver(DOMAIN res.at_post,
                                  [i \in DOMAIN res.at_post |-> res.at_post[i].debit]),
                              !.post_credit = SumOver(DOMAIN res.at_post,
                                  [i \in DOMAIN res.at_post |-> res.at_post[i].credit])]
                /\ snap' = [ml \in res.all_move_lines |->
                               {p.debit_move_id : p \in matched_debit_ids(partials, ml)}]
                /\ created' = [created EXCEPT ![r] = @ \cup {res.m}]
                /\ confirmed' = confirmed \cup {r}
                /\ UNCHANGED <<journal, rlines>>

----------------------------------------------------------------------------
(* payment.return: cancellation, reset, deletion.                          *)

RECURSIVE SortedPartials(_)
\* A recordset of partials iterates in creation order, which for the
\* partials of one debit line is the order of their credit lines.
SortedPartials(ps) ==
    IF ps = {} THEN << >>
    ELSE LET p == CHOOSE x \in ps : \A y \in ps : x.credit_move_id <= y.credit_move_id
         IN  <<p>> \o SortedPartials(ps \ {p})

\* One iteration of "for partial_line in move_line.matched_credit_ids".
cancel_step(st, partial_line) ==
    LET lines2reconcile ==
            partial_line.origin_returned_move_ids \cup {partial_line.credit_move_id}
        ps1 == remove_move_reconcile(st.ps, partial_line.credit_move_id)
        err == reconcile_error(aml, ps1, lines2reconcile)
    IN  IF st.error # "" THEN st
        ELSE IF partial_line \notin st.ps THEN [st EXCEPT !.error = "MissingError"]
        ELSE IF err # "" THEN [st EXCEPT !.error = err]
        ELSE [ps |-> reconcile(aml, ps1, lines2reconcile),
              invoices |-> st.invoices \cup
                  {aml[i].move_id : i \in partial_line.origin_returned_move_ids},
              error |-> ""]

RECURSIVE cancel_partials(_, _)
cancel_partials(st, pls) ==
    IF pls = << >> THEN st
    ELSE cancel_partials(cancel_step(st, Head(pls)), Tail(pls))

RECURSIVE cancel_loop(_, _)
\* The loop of action_cancel over the receivable lines of the entry.
cancel_loop(st, mls) ==
    IF mls = << >> THEN st
    ELSE cancel_loop(
             cancel_partials(st, SortedPartials(matched_credit_ids(st.ps, Head(mls)))),
             Tail(mls))

\* move.button_draft() and move.unlink(): the reconciliations of the entry's
\* lines are removed and the lines are deleted with the entry.
unlink_move_partials(ps, ls) ==
    {[p EXCEPT !.origin_returned_move_ids = @ \ ls] :
        p \in {q \in ps : q.debit_move_id \notin ls /\ q.credit_move_id \notin ls}}

\* action_cancel on return r: the exception raised, or the new partials and
\* the invoices passed to check_payment_return.
cancel_result(r) ==
    LET m == returns[r].move_id
        receivable == {l \in line_ids(aml, m) : account_internal_type(aml, l) = "receivable"}
        st == cancel_loop([ps |-> partials, invoices |-> {}, error |-> ""],
                          SortedSeq(receivable))
    IN  [error |-> st.error,
         partials |-> unlink_move_partials(st.ps, line_ids(aml, m)),
         invoices |-> st.invoices]

action_cancel(r) ==
    /\ called
    /\ r \in DOMAIN returns
    /\ LET res == cancel_result(r)
           m == returns[r].move_id
           call == [NoCall EXCEPT !.op = "action_cancel", !.self = {r}]
       IN  IF res.error # ""
           THEN /\ last' = [call EXCEPT !.error = res.error]
                /\ snap' = << >>
                /\ UNCHANGED <<journal, moves, aml, partials, returns, rlines,
                               created, confirmed>>
           ELSE /\ partials' = res.partials
                /\ aml' = [l \in DOMAIN aml \ line_ids(aml, m) |-> aml[l]]
                /\ moves' = [x \in DOMAIN moves \ {m} |-> moves[x]]
                /\ returns' = [returns EXCEPT ![r] = [state |-> "cancelled", move_id |-> NoMove]]
                /\ last' = [call EXCEPT !.invoices = res.invoices]
                /\ snap' = << >>
                /\ confirmed' = confirmed \ {r}
                /\ created' = [x \in DOMAIN created |-> created[x] \ {m}]
                /\ UNCHANGED <<journal, rlines>>

action_draft(r) ==
    /\ called
    /\ r \in DOMAIN returns
    /\ returns' = [returns EXCEPT ![r].state = "draft"]
    /\ last' = [NoCall EXCEPT !.op = "action_draft", !.self = {r}]
    /\ snap' = << >>
    /\ UNCHANGED <<journal, moves, aml, partials, rlines, created, confirmed>>

\* self.filtered(lambda x: x.state == "done")
done_returns(self) == {x \in self : returns[x].state = "done"}

unlink(self) ==
    /\ called
    /\ self # {}
    /\ self \subseteq DOMAIN returns
    /\ snap' = << >>
    /\ IF done_returns(self) # {}
       THEN /\ last' = [NoCall EXCEPT !.op = "unlink", !.self = self, !.error = "UserError"]
            /\ UNCHANGED <<journal, moves, aml, partials, returns, rlines,
                           created, confirmed>>
       ELSE /\ returns' = [x \in DOMAIN returns \ self |-> returns[x]]
            /\ rlines' = [l \in DOMAIN rlines \ mapped_line_ids(rlines, self) |-> rlines[l]]
            /\ last' = [NoCall EXCEPT !.op = "unlink", !.self = self]
            /\ UNCHANGED <<journal, moves, aml, partials, created, confirmed>>

----------------------------------------------------------------------------
(* Writes on line_ids and button_match, with the constraint.               *)

\* The payment lines a user selects on a return line: credit lines on the
\* receivable account.
payment_lines == {i \in DOMAIN aml : aml[i].account_id = "receivable" /\ aml[i].credit > 0}

\* line_ids is readonly in states done and cancelled.
line_ids_readonly(r) == returns[r].state \in {"done", "cancelled"}

\* The constraint on a tentative new set of lines: commit or roll back.
constrained_write(op, self, rl) ==
    /\ called
    /\ snap' = << >>
    /\ IF check_duplicate_move_line(returns, rl, self) # << >>
       THEN /\ last' = [NoCall EXCEPT !.op = op, !.self = self,
                                      !.error = "ValidationError", !.checked_lines = rl]
            /\ UNCHANGED rlines
       ELSE /\ last' = [NoCall EXCEPT !.op = op, !.self = self, !.checked_lines = rl]
            /\ rlines' = rl
    /\ UNCHANGED <<journal, moves, aml, partials, returns, created, confirmed>>

\* return.write({"line_ids": [(1, l, {"move_line_ids": mls, "amount": amount})]})
write_line(r, l, mls, amount) ==
    /\ r \in DOMAIN returns
    /\ ~ line_ids_readonly(r)
    /\ l \in return_lines(rlines, r)
    /\ constrained_write("write", {r},
           [rlines EXCEPT ![l].move_line_ids = mls, ![l].amount = amount])

\* return.write({"line_ids": [(2, l)]})
unlink_line(r, l) ==
    /\ r \in DOMAIN returns
    /\ ~ line_ids_readonly(r)
    /\ l \in return_lines(rlines, r)
    /\ constrained_write("write", {r}, [x \in DOMAIN rlines \ {l} |-> rlines[x]])

button_match(self) ==
    /\ self # {}
    /\ self \subseteq DOMAIN returns
    /\ LET res == find_match(rlines, unmatched(rlines, mapped_line_ids(rlines, self)))
       IN  IF res.error # ""
           THEN /\ called
                /\ last' = [NoCall EXCEPT !.op = "button_match", !.self = self,
                                          !.error = res.error]
                /\ snap' = << >>
                /\ UNCHANGED <<journal, moves, aml, partials, returns, rlines,
                               created, confirmed>>
           ELSE constrained_write("button_match", self, res.rl)

----------------------------------------------------------------------------
(* The ledger the returns work on, and the initial states.                 *)

\* Two customer invoices and the two payments that paid them, received on
\* the journal of the returns.  three: the second payment has a third line
\* (a bank fee).
LedgerMoves ==
    [x \in 1..5 |->
        [move_type |-> IF x \in {1, 2} THEN "out_invoice" ELSE "entry",
         name |-> <<"A", "I2", "C", "B", "S">>[x],
         ref |-> IF x \in {3, 4} THEN "R" ELSE "",
         partner_id |-> <<1, 2, 1, 2, NoPartner>>[x],
         journal_id |-> IF x \in {3, 4, 5} THEN 1 ELSE 2,
         returned_payment |-> FALSE]]

Line(m, acc, d, c, pa, n) ==
    [move_id |-> m, account_id |-> acc, debit |-> d, credit |-> c,
     partner_id |-> pa, name |-> n]

LedgerLines(three) ==
    LET base == [x \in 1..8 |->
            CASE x = 1 -> Line(1, "receivable", 1, 0, 1, "A")
              [] x = 2 -> Line(2, "receivable", 2, 0, 2, "I2")
              [] x = 3 -> Line(3, "receivable", 0, 1, 1, "B")
              [] x = 4 -> Line(3, "outstanding", 1, 0, 1, "")
              [] x = 5 -> Line(4, "receivable", 0, 1, 2, "A")
              [] x = 6 -> Line(4, "outstanding", 1, 0, 2, "")
              [] x = 7 -> Line(5, "outstanding", 0, 1, NoPartner, "S")
              [] x = 8 -> Line(5, "bank", 1, 0, NoPartner, "S")]
    IN  IF three
        THEN Merge(base, [x \in {9, 10} |->
                 IF x = 9 THEN Line(4, "expense", 1, 0, 2, "")
                 ELSE Line(4, "bank", 0, 1, 2, "")])
        ELSE base

Partial(d, c, a) ==
    [debit_move_id |-> d, credit_move_id |-> c, amount |-> a,
     origin_returned_move_ids |-> {}]

\* Each payment is reconciled with its invoice; banked: the first payment's
\* counterpart is already reconciled with the bank statement.
LedgerPartials(banked) ==
    {Partial(1, 3, 1), Partial(2, 5, 1)} \cup (IF banked THEN {Partial(4, 7, 1)} ELSE {})

ReturnLine(r, ref, pa, exp) ==
    [return_id |-> r, move_line_ids |-> {}, amount |-> 0, reference |-> ref,
     partner_id |-> pa, expense_amount |-> exp]

InitCommon(ids) ==
    /\ moves = LedgerMoves
    /\ returns = [r \in ids |->
                     [state |-> IF r = 1 THEN "draft" ELSE "imported", move_id |-> NoMove]]
    /\ last = NoCall
    /\ snap = << >>
    /\ created = [r \in ReturnIds |-> {}]
    /\ confirmed = {}
    /\ calls = 0

Journal(auto, account) ==
    [id |-> 1, return_auto_reconcile |-> auto,
     payment_credit_account_id |-> account, default_account_id |-> "bank"]

\* The workflow: two returns and three lines; the line of the second return
\* is already matched with the first payment.
Init ==
    /\ InitCommon(ReturnIds)
    /\ journal = Journal(TRUE, "outstanding")
    /\ aml = LedgerLines(FALSE)
    /\ partials = LedgerPartials(FALSE)
    /\ rlines = [l \in 1..3 |->
                    CASE l = 1 -> ReturnLine(1, "A", NoPartner, 0)
                      [] l = 2 -> ReturnLine(1, "", NoPartner, 1)
                      [] l = 3 -> [ReturnLine(2, "B", 1, 0) EXCEPT
                                      !.move_line_ids = {3}, !.amount = 1]]

\* Auto-reconciliation: one return with two lines; the journal's option and
\* account, the shape of the second payment and the state of the first
\* payment's counterpart vary.
InitAuto ==
    /\ InitCommon({1})
    /\ \E auto \in BOOLEAN, account \in {"outstanding", "outstanding2"} :
          journal = Journal(auto, account)
    /\ \E three \in BOOLEAN : aml = LedgerLines(three)
    /\ \E banked \in BOOLEAN : partials = LedgerPartials(banked)
    /\ rlines = [l \in 1..2 |->
                    CASE l = 1 -> ReturnLine(1, "A", NoPartner, 0)
                      [] l = 2 -> ReturnLine(1, "", NoPartner, 1)]

\* Matching: one return with two imported lines; the reference, the partner
\* and the amount of the first line vary, the second line is matched already.
References == {"", "A", "B", "C", "R", "D"}

InitMatch ==
    /\ InitCommon({1})
    /\ journal = Journal(TRUE, "outstanding")
    /\ aml = LedgerLines(FALSE)
    /\ partials = LedgerPartials(FALSE)
    /\ \E ref \in References, pa \in {NoPartner, 1, 2}, amount \in {0, MaxAmount},
          ref2 \in {"", "C"} :
          rlines = [l \in 1..2 |->
                       CASE l = 1 -> [ReturnLine(1, ref, pa, 0) EXCEPT !.amount = amount]
                         [] l = 2 -> ReturnLine(1, ref2, NoPartner, 1)]

Next ==
    \/ \E r \in ReturnIds : action_confirm(r)
    \/ \E r \in ReturnIds : action_cancel(r)
    \/ \E r \in ReturnIds : action_draft(r)
    \/ \E self \in SUBSET ReturnIds : unlink(self)
    \/ \E self \in SUBSET ReturnIds : button_match(self)
    \/ \E r \in ReturnIds, l \in DOMAIN rlines, mls \in SUBSET payment_lines \ {{}},
          amount \in 1..MaxAmount : write_line(r, l, mls, amount)
    \/ \E r \in ReturnIds, l \in DOMAIN rlines : unlink_line(r, l)

Spec == Init /\ [][Next]_vars

SpecAuto == InitAuto /\ [][Next]_vars

SpecMatch == InitMatch /\ [][Next]_vars

----------------------------------------------------------------------------
(* Properties.                                                             *)

\* The return a single-record call was made on.
LastReturn == CHOOSE r \in last.self : TRUE

ConfirmedOk == last.op = "action_confirm" /\ last.error = ""

\* The step is a call of action_confirm that returned True.
ConfirmStep == last'.op = "action_confirm" /\ last'.error = ""

\* The payment move lines the lines of return r reference.
ReferencedPaymentLines(r) ==
    UNION {rlines[l].move_line_ids : l \in {x \in DOMAIN rlines : rlines[x].return_id = r}}

\* The other lines of the moves of the payment lines of return r.
Counterparts(r) ==
    {c \in DOMAIN aml : \E ml \in ReferencedPaymentLines(r) :
        aml[c].move_id = aml[ml].move_id /\ c # ml}

LinesOfMove(m) == {i \in DOMAIN aml : aml[i].move_id = m}

\* The conditions of C1, on the state before the call.
AutoReconcileExpected(r) ==
    /\ journal.return_auto_reconcile
    /\ \A ml \in ReferencedPaymentLines(r) : Cardinality(LinesOfMove(aml[ml].move_id)) = 2
    /\ Counterparts(r) # {}
    /\ SumOver(Counterparts(r), [i \in DOMAIN aml |-> aml[i].debit])
         = SumOver({l \in DOMAIN rlines : rlines[l].return_id = r},
                   [l \in DOMAIN rlines |-> rlines[l].amount])
    /\ \A c \in Counterparts(r) : ~ reconciled(aml, partials, c)
    /\ \A c \in Counterparts(r) : aml[c].account_id = journal.payment_credit_account_id

\* C1: a successful action_confirm reconciles the credit line of the return
\* entry with the counterpart lines of the returned payment moves exactly when
\* the journal's option is enabled, every returned payment line belongs to a
\* move of two lines, there is a counterpart, the counterparts' debit sums to
\* the return's total, no counterpart is reconciled and all the lines share one
\* account; otherwise the credit line is reconciled with nothing and no
\* counterpart's reconciled status changes.
C1_AutoReconcileExactlyWhen ==
    [][ConfirmStep =>
        LET r == CHOOSE x \in last'.self : TRUE
            credit == last'.credit_move_line
        IN  IF AutoReconcileExpected(r)
            THEN /\ \A c \in Counterparts(r) :
                        /\ \E p \in partials' : p.debit_move_id = c /\ p.credit_move_id = credit
                        /\ reconciled(aml', partials', c)
                 /\ reconciled(aml', partials', credit)
            ELSE /\ ~ \E p \in partials' : credit \in {p.debit_move_id, p.credit_move_id}
                 /\ \A c \in Counterparts(r) :
                        reconciled(aml', partials', c) = reconciled(aml, partials, c)
       ]_vars

\* C1 witness: a confirmed return whose credit line is reconciled with the
\* counterparts of two payments.
C1_Witness ==
    /\ ConfirmedOk
    /\ Cardinality({p \in partials : p.credit_move_id = last.credit_move_line}) = 2

\* Two different lines of the checked returns reference the same move line.
DuplicateAmong(rl, self) ==
    \E l1, l2 \in {l \in DOMAIN rl : rl[l].return_id \in self} :
        l1 # l2 /\ rl[l1].move_line_ids \cap rl[l2].move_line_ids # {}

\* A move line of the checked returns is referenced by a line of a done return.
SharedWithDone(rl, self) ==
    \E l \in {x \in DOMAIN rl : rl[x].return_id \in self}, d \in DOMAIN rl :
        /\ returns[rl[d].return_id].state = "done"
        /\ rl[l].move_line_ids \cap rl[d].move_line_ids # {}

ConstraintRan ==
    /\ last.op \in {"write", "button_match"}
    /\ last.error \in {"", "ValidationError"}

\* C2: the constraint, run on a write of line_ids and at the end of
\* button_match, raises ValidationError exactly when a move line is referenced
\* twice among the lines of the checked returns or a move line of theirs is
\* referenced by a line of a done return; lines shared with returns that are
\* draft, imported or cancelled pass.
C2_DuplicateCheck ==
    ConstraintRan =>
        (last.error = "ValidationError"
            <=> \/ DuplicateAmong(last.checked_lines, last.self)
                \/ SharedWithDone(last.checked_lines, last.self))

\* C2 witness: a write refused only because the move line is referenced by a
\* line of a done return.
C2_Witness ==
    /\ last.op = "write"
    /\ last.error = "ValidationError"
    /\ ~ DuplicateAmong(last.checked_lines, last.self)
    /\ SharedWithDone(last.checked_lines, last.self)

\* Return r has a line without payment move lines.
HasIncompleteLine(r) ==
    \E l \in DOMAIN rlines : rlines[l].return_id = r /\ rlines[l].move_line_ids = {}

\* C3: action_confirm on a return with a line without payment move lines
\* raises UserError and changes nothing: no entry, no reconciliation, no
\* invoice flagged, state and move_id as they were.
C3_IncompleteConfirmRefused ==
    [][(last'.op = "action_confirm" /\ HasIncompleteLine(CHOOSE x \in last'.self : TRUE)) =>
        /\ last'.error = "UserError"
        /\ UNCHANGED <<moves, aml, partials, returns, rlines>>
      ]_vars

\* C3 witness: a refused confirmation of a return with an incomplete line.
C3_Witness ==
    /\ last.op = "action_confirm"
    /\ last.error = "UserError"
    /\ HasIncompleteLine(LastReturn)

\* C4: unlink of a set with a done return raises UserError and deletes none,
\* a set without a done return is deleted; so a return that was confirmed
\* disappears only after action_cancel moved it out of state done.
C4_UnlinkOnlyAfterCancel ==
    [][/\ last'.op = "unlink" =>
            IF \E r \in last'.self : returns[r].state = "done"
            THEN last'.error = "UserError" /\ UNCHANGED <<returns, rlines>>
            ELSE last'.error = "" /\ DOMAIN returns' = DOMAIN returns \ last'.self
       /\ \A r \in DOMAIN returns \ DOMAIN returns' : r \notin confirmed
      ]_vars

\* The unlink part of C4 alone: a set with a done return is refused whole, any
\* other set is deleted.
UnlinkRefusesDone ==
    [][last'.op = "unlink" =>
            IF \E r \in last'.self : returns[r].state = "done"
            THEN last'.error = "UserError" /\ UNCHANGED <<returns, rlines>>
            ELSE last'.error = "" /\ DOMAIN returns' = DOMAIN returns \ last'.self
      ]_vars

\* The debit lines the payment line ml is matched with.
MatchedDebits(ml) == {p.debit_move_id : p \in {q \in partials : q.credit_move_id = ml}}

\* C5: a successful action_confirm flags exactly the moves that own a debit
\* line matched with one of the return's payment lines, and records those
\* debit lines as origin_returned_move_ids on the new reconciliation of the
\* payment line with the return's debit line.
C5_FlagsAndOrigins ==
    [][ConfirmStep =>
        LET r == CHOOSE x \in last'.self : TRUE
            m == returns'[r].move_id
            affected == {aml[d].move_id : d \in UNION {MatchedDebits(ml) :
                                                        ml \in ReferencedPaymentLines(r)}}
        IN  /\ \A x \in DOMAIN moves :
                  moves'[x].returned_payment <=> (moves[x].returned_payment \/ x \in affected)
            /\ \A l \in {x \in DOMAIN rlines : rlines[x].return_id = r} :
                  \A ml \in rlines[l].move_line_ids :
                     \E p \in partials' :
                        /\ p.credit_move_id = ml
                        /\ aml'[p.debit_move_id].move_id = m
                        /\ p.origin_returned_move_ids = MatchedDebits(ml)
       ]_vars

\* The flagging part of C5 alone.
FlagsExactlyAffected ==
    [][ConfirmStep =>
        LET r == CHOOSE x \in last'.self : TRUE
            affected == {aml[d].move_id : d \in UNION {MatchedDebits(ml) :
                                                        ml \in ReferencedPaymentLines(r)}}
        IN  \A x \in DOMAIN moves :
               moves'[x].returned_payment <=> (moves[x].returned_payment \/ x \in affected)
       ]_vars

\* C6: total_amount of every return of the computed set is the sum of the
\* amounts of its own lines, 0 without lines.
C6_TotalAmount ==
    \A self \in SUBSET DOMAIN returns : \A rec \in self :
        compute_total_amount(rlines, self)[rec]
          = SumOver({l \in DOMAIN rlines : rlines[l].return_id = rec},
                    [l \in DOMAIN rlines |-> rlines[l].amount])

\* C6 witness: one return without lines and total 0 beside a return with two
\* lines with amounts.
C6_Witness ==
    /\ DOMAIN returns = {1, 2}
    /\ \E r \in {1, 2}, o \in {1, 2} :
          /\ {l \in DOMAIN rlines : rlines[l].return_id = r} = {}
          /\ compute_total_amount(rlines, {1, 2})[r] = 0
          /\ Cardinality({l \in DOMAIN rlines : rlines[l].return_id = o /\ rlines[l].amount > 0}) = 2
          /\ compute_total_amount(rlines, {1, 2})[o] >= 2

\* The step is a successful action_cancel right after a successful
\* action_confirm of the same return.
CancelAfterConfirm ==
    /\ ConfirmedOk
    /\ last'.op = "action_cancel" /\ last'.error = "" /\ last'.self = last.self

\* The return is cancelled, its entry is gone, every payment line is matched
\* with the debit lines recorded before the confirm and their moves were
\* passed to check_payment_return.
Restored ==
    LET r == LastReturn
        m == returns[r].move_id
    IN  /\ \A ml \in DOMAIN snap :
              {p.debit_move_id : p \in {q \in partials' : q.credit_move_id = ml}} = snap[ml]
        /\ returns'[r] = [state |-> "cancelled", move_id |-> NoMove]
        /\ m \notin DOMAIN moves'
        /\ \A i \in DOMAIN aml' : aml'[i].move_id # m
        /\ {aml[d].move_id : d \in UNION {snap[ml] : ml \in DOMAIN snap}} \subseteq last'.invoices

\* C7: action_cancel right after a successful action_confirm restores, for
\* every payment line of the return (also when a line references several
\* payment lines matched with different invoices), the reconciliation with
\* the debit lines it was matched with before; the entry is gone, move_id is
\* empty, the state is cancelled and every affected invoice is passed to
\* check_payment_return.
C7_CancelRestores == [][CancelAfterConfirm => Restored]_vars

\* C7 restricted to returns whose lines each reference one payment line.
CancelRestoresSingle ==
    [][(/\ CancelAfterConfirm
        /\ \A l \in DOMAIN rlines :
              rlines[l].return_id \in last.self => Cardinality(rlines[l].move_line_ids) = 1)
       => Restored]_vars

DebitTotal(m) == SumOver(LinesOfMove(m), [i \in DOMAIN aml |-> aml[i].debit])
CreditTotal(m) == SumOver(LinesOfMove(m), [i \in DOMAIN aml |-> aml[i].credit])

\* C8: the entry of action_confirm is balanced when it is posted and stays
\* balanced; it holds one debit line per return line (debit the line's amount,
\* credit 0), one credit line for the sum of those debits, and a pair of lines
\* of equal credit and debit for each line with an expense amount.
C8_EntryBalanced ==
    /\ \A r \in DOMAIN created : \A m \in created[r] : DebitTotal(m) = CreditTotal(m)
    /\ ConfirmedOk =>
        LET r == LastReturn
            m == returns[r].move_id
            ls == {l \in DOMAIN rlines : rlines[l].return_id = r}
            with_expense == {l \in ls : rlines[l].expense_amount # 0}
            total == SumOver(ls, [l \in DOMAIN rlines |-> rlines[l].amount])
        IN  /\ last.post_debit = last.post_credit
            /\ last.post_debit = total
            /\ \A l \in ls :
                  /\ aml[debit_line_id(m, l)].move_id = m
                  /\ aml[debit_line_id(m, l)].debit = rlines[l].amount
                  /\ aml[debit_line_id(m, l)].credit = 0
            /\ aml[last.credit_move_line].move_id = m
            /\ aml[last.credit_move_line].credit = total
            /\ aml[last.credit_move_line].debit = 0
            /\ \A l \in with_expense :
                  /\ aml[expense_credit_id(m, l)].credit = rlines[l].expense_amount
                  /\ aml[expense_credit_id(m, l)].debit = 0
                  /\ aml[expense_debit_id(m, l)].debit = rlines[l].expense_amount
                  /\ aml[expense_debit_id(m, l)].credit = 0
            /\ Cardinality(LinesOfMove(m))
                 = Cardinality(ls) + 1 + 2 * Cardinality(with_expense)

\* C8 witness: a confirmed return with two lines, one of them with an expense
\* amount.
C8_Witness ==
    /\ ConfirmedOk
    /\ Cardinality({l \in DOMAIN rlines : rlines[l].return_id = LastReturn}) = 2
    /\ \E l \in DOMAIN rlines : rlines[l].return_id = LastReturn /\ rlines[l].expense_amount # 0
    /\ DebitTotal(returns[LastReturn].move_id) >= 3

\* The move lines each matcher alone finds for line l.
FoundBy(which, l) ==
    LET cleared == [rlines EXCEPT ![l].move_line_ids = {}]
    IN  CASE which = 1 -> match_invoice(cleared, l)[l].move_line_ids
          [] which = 2 -> match_move_lines(cleared, l)[l].move_line_ids
          [] OTHER -> match_move(cleared, l)[l].move_line_ids

\* C9: button_match leaves lines that have payment lines or no reference as
\* they are; on the others the first matcher that finds something wins, in
\* the order match_invoice, match_move_lines, match_move; a non-zero amount is
\* not recomputed and a partner that is set is not replaced.
C9_MatchPrecedence ==
    [][(last'.op = "button_match" /\ last'.error = "") =>
        \A l \in DOMAIN rlines :
            IF \/ rlines[l].return_id \notin last'.self
               \/ rlines[l].move_line_ids # {}
               \/ rlines[l].reference = ""
            THEN rlines'[l] = rlines[l]
            ELSE /\ rlines'[l].move_line_ids =
                        IF FoundBy(1, l) # {} THEN FoundBy(1, l)
                        ELSE IF FoundBy(2, l) # {} THEN FoundBy(2, l)
                        ELSE FoundBy(3, l)
                 /\ rlines[l].amount # 0 => rlines'[l].amount = rlines[l].amount
                 /\ rlines[l].partner_id # NoPartner =>
                        rlines'[l].partner_id = rlines[l].partner_id
      ]_vars

\* C9 witness: the first call matched line 1 by its invoice, to the payment
\* line reconciled with it, although match_move_lines finds another payment
\* line under the same reference; the imported amount was kept.
C9_Witness ==
    /\ calls = 1
    /\ last.op = "button_match"
    /\ last.error = ""
    /\ rlines[1].reference = "A"
    /\ rlines[1].move_line_ids = {3}
    /\ rlines[1].amount = MaxAmount
    /\ match_move_lines([rlines EXCEPT ![1].move_line_ids = {},
                                       ![1].partner_id = NoPartner], 1)[1].move_line_ids = {5}

\* C10: a return has a journal entry exactly when it is done, and every entry
\* action_confirm created for it is the one move_id references or is deleted.
C10_EntryIffDone ==
    \A r \in DOMAIN returns :
        /\ returns[r].move_id # NoMove <=> returns[r].state = "done"
        /\ created[r] \subseteq {returns[r].move_id}

====
